---------------------------- MODULE Spec2Model ----------------------------
(***************************************************************************)
(* A model of the rare-variant collapsing routines of src/ModelFitter.cpp  *)
(* and of the Summary / SummaryHeader classes of Summary.h.                *)
(*                                                                         *)
(* Numbers.  Genotype dosages are doubles in the program.  Here a dosage   *)
(* is an integer count of 1/Unit steps: the model integer k stands for the *)
(* double k/Unit, so that with Unit = 2 the value 1 is the imputed dosage  *)
(* 0.5 and -1 is the "missing" entry -0.5.  A frequency is the exact       *)
(* rational [num, den] (den > 0) of the quotient the program computes.     *)
(* Matrices are indexed from 0 as in the program.                          *)
(***************************************************************************)
EXTENDS Integers, Sequences, FiniteSets

\* ------------------------------------------------------------------ bounds
Unit == 2
NumPeople == 2
NumMarker == 2
NumColumn == 1
OutCols == 2
MaxIndex == 2
MaxN == 4
MaxObs == 3
MaxCalls == 3
MaxCols == 2

\* The dosages the genotype matrices are drawn from:
\* -1.0, -1/Unit (both missing), 0, 1/Unit, 2.0 and 3.0.
Dosage == {-Unit, -1, 0, 1, 2 * Unit, 3 * Unit}

\* What an output matrix may hold in every cell before a call (in units of 1.0).
Fill == {0, 1, 7}

VARIABLES
  in,          \* the genotype matrix passed to the call
  out,         \* the matrix *out points to
  weight,      \* per marker: the weight the weighted collapses computed
  phenotype,   \* the phenotype vector passed to the call (<<>> when none)
  index,       \* cmcCollapse's marker indices (<<>> when none)
  outIndex,    \* cmcCollapse's output column
  col,         \* the marker column of a frequency call
  ret,         \* the frequency a frequency call returned
  called,      \* the function that was called, "none" before the call
  aborted,     \* TRUE when an assert of the call failed
  \* Summary::add on its own
  v,           \* the observations passed to add
  s,           \* the Summary object
  pc,          \* "new", then "added", or "crashed" when the process died in add
  \* one SummaryHeader and the file it is rendered to
  phenoLabel, pheno, inverseNormalized, covLabel, cov,
  fp,          \* the lines outputHeader wrote, in order
  hpc,         \* "recording", then "rendered", or "crashed"
  calls,       \* the number of calls made on the header
  oobRead,     \* TRUE once a vector was read outside its elements
  \* history of the calls, for stating what was recorded
  recPheno,    \* the (label, Summary) pairs of all recordPhenotype calls
  recCovCount, \* the number of columns of all recordCovariate calls together
  lastCov,     \* the (label, Summary) pairs of the last recordCovariate call
  directCol    \* TRUE once recordCovariateColumn was called by the client

collapseVars ==
  <<in, out, weight, phenotype, index, outIndex, col, ret, called, aborted>>
addVars == <<v, s, pc>>
headerVars ==
  <<phenoLabel, pheno, inverseNormalized, covLabel, cov, fp, hpc, calls,
    recPheno, recCovCount, lastCov, directCol>>
vars == <<collapseVars, addVars, headerVars, oobRead>>

\* ---------------------------------------------------------------- matrices
\* out->Dimension(r, c); out->Zero(): whatever *out held, it is r x c zeros
Zero(r, c) ==
  [rows |-> r, cols |-> c,
   data |-> [p \in 0 .. r - 1 |-> [m \in 0 .. c - 1 |-> 0]]]

Matrices(r, c) ==
  {[rows |-> r, cols |-> c, data |-> d] :
     d \in [0 .. r - 1 -> [0 .. c - 1 -> Dosage]]}

\* The matrices a caller may hand in as *out: any of two row counts, one to
\* OutCols columns, every cell holding the same earlier value.
PriorOut ==
  {[rows |-> r, cols |-> c,
    data |-> [p \in 0 .. r - 1 |-> [m \in 0 .. c - 1 |-> f]]] :
     r \in {NumPeople - 1, NumPeople}, c \in 1 .. OutCols, f \in Fill}

\* (int) x for a double x: truncation toward zero
IntCast(x) == IF x >= 0 THEN x \div Unit ELSE -((-x) \div Unit)

\* -------------------------------------------------------------- frequencies
\* The loop of getMarkerFrequency over people p .. rows-1: <<ac, an>>
RECURSIVE FreqLoop(_, _, _, _, _)
FreqLoop(m, c, p, ac, an) ==
  IF p >= m.rows THEN <<ac, an>>
  ELSE IF IntCast(m.data[p][c]) >= 0
       THEN FreqLoop(m, c, p + 1, ac + m.data[p][c], an + 2)
       ELSE FreqLoop(m, c, p + 1, ac, an)

getMarkerFrequency(m, c) ==
  LET t == FreqLoop(m, c, 0, 0, 0)
  IN  IF t[2] = 0 THEN [num |-> 0, den |-> 1]
      ELSE [num |-> t[1], den |-> Unit * t[2]]

\* The loop of getMarkerFrequencyFromControl: cases (pheno[p] = 1) are skipped
RECURSIVE ControlLoop(_, _, _, _, _, _)
ControlLoop(m, ph, c, p, ac, an) ==
  IF p >= m.rows THEN <<ac, an>>
  ELSE IF ph[p] = 1 THEN ControlLoop(m, ph, c, p + 1, ac, an)
  ELSE IF m.data[p][c] >= 0
       THEN ControlLoop(m, ph, c, p + 1, ac + m.data[p][c], an + 2)
       ELSE ControlLoop(m, ph, c, p + 1, ac, an)

\* A slip: the estimator (ac + 1) / (an + 1) of the commented-out line
getMarkerFrequencyFromControlPlusOne(m, ph, c) ==
  LET t == ControlLoop(m, ph, c, 0, 0, 0)
  IN  [num |-> t[1] + Unit, den |-> Unit * (t[2] + 1)]

getMarkerFrequencyFromControl(m, ph, c) ==
  LET t == ControlLoop(m, ph, c, 0, 0, 0)
  IN  [num |-> t[1] + Unit, den |-> Unit * (t[2] + 2)]

\* freq <= 0.0 || freq >= 1.0
Degenerate(f) == f.num <= 0 \/ f.num >= f.den

\* Summary(): every field 0
NewSummary ==
  [n |-> 0, min |-> 0, q1 |-> 0, median |-> 0, q3 |-> 0, max |-> 0]

\* The parts of the state a specification does not use stay as constructed
NoCollapse ==
  /\ in = Zero(0, 0)
  /\ out = Zero(0, 0)
  /\ weight = <<>>
  /\ phenotype = <<>>
  /\ index = <<>>
  /\ outIndex = 0
  /\ col = 0
  /\ ret = [num |-> 0, den |-> 1]
  /\ called = "none"
  /\ aborted = FALSE

NoAdd ==
  /\ v = <<>>
  /\ s = NewSummary
  /\ pc = "new"

\* SummaryHeader(): empty lists, inverseNormalized(false)
NewHeader ==
  /\ phenoLabel = <<>>
  /\ pheno = <<>>
  /\ inverseNormalized = FALSE
  /\ covLabel = <<>>
  /\ cov = <<>>
  /\ fp = <<>>
  /\ hpc = "recording"
  /\ calls = 0
  /\ recPheno = <<>>
  /\ recCovCount = 0
  /\ lastCov = <<>>
  /\ directCol = FALSE

InitCollapse ==
  /\ in \in Matrices(NumPeople, NumMarker)
  /\ out = Zero(0, 0)
  /\ weight = <<>>
  /\ phenotype = <<>>
  /\ index = <<>>
  /\ outIndex = 0
  /\ col = 0
  /\ ret = [num |-> 0, den |-> 1]
  /\ called = "none"
  /\ aborted = FALSE
  /\ NoAdd
  /\ NewHeader
  /\ oobRead = FALSE

\* The phenotype vectors of a call: 0 is a control, 1 a case
Phenotypes(r) == [0 .. r - 1 -> {0, 1}]

\* The index lists of the indexed cmcCollapse: marker columns, repeats allowed
RECURSIVE IndexLists(_, _)
IndexLists(c, n) ==
  IF n = 0 THEN {<<>>}
  ELSE LET shorter == IndexLists(c, n - 1)
       IN  shorter \cup {Append(l, m) : l \in {t \in shorter : Len(t) = n - 1},
                                        m \in 0 .. c - 1}

\* ------------------------------------------------------------- collapsing
\* The marker loop of cmcCollapse for person p from marker m on:
\* TRUE when the loop reaches a marker with (int) genotype > 0 (and breaks)
RECURSIVE CmcScan(_, _, _)
CmcScan(g, p, m) ==
  IF m >= g.cols THEN FALSE
  ELSE IF IntCast(g.data[p][m]) > 0 THEN TRUE
  ELSE CmcScan(g, p, m + 1)

\* The same loop of the indexed cmcCollapse, over index[k], k = 1 ..
RECURSIVE CmcScanIndexed(_, _, _, _)
CmcScanIndexed(g, idx, p, k) ==
  IF k > Len(idx) THEN FALSE
  ELSE IF IntCast(g.data[p][idx[k]]) > 0 THEN TRUE
  ELSE CmcScanIndexed(g, idx, p, k + 1)

\* The marker loop of zegginiCollapse for person p: the count it adds up
RECURSIVE ZegginiScan(_, _, _)
ZegginiScan(g, p, m) ==
  IF m >= g.cols THEN 0
  ELSE (IF IntCast(g.data[p][m]) > 0 THEN 1 ELSE 0) + ZegginiScan(g, p, m + 1)

\* What a weighted collapse leaves in (*out)[p][0].  The weight of marker m,
\* 1 / sqrt(freq * (1 - freq) * scale), is irrational, so the sum is kept as
\* its terms: Terms(g, w)[p][0][m] is the genotype factor (in 1/Unit steps)
\* of the product added for marker m, 0 for a marker the loop skipped.  The
\* cell's value is the sum over m of Terms[p][0][m] / Unit * weight of m, and
\* every weight that is used is > 0, since its freq lies strictly in (0, 1).
Weights(freq, scale) ==
  [m \in DOMAIN freq |->
     [freq |-> freq[m], skip |-> Degenerate(freq[m]), scale |-> scale]]

Terms(g, w) ==
  [rows |-> g.rows, cols |-> 1,
   data |-> [p \in 0 .. g.rows - 1 |->
              [c \in {0} |->
                [m \in 0 .. g.cols - 1 |->
                   IF w[m].skip THEN 0 ELSE g.data[p][m]]]]]

Call(name) ==
  /\ called = "none"
  /\ called' = name
  /\ UNCHANGED <<addVars, headerVars, oobRead>>

\* assert(out) with out == NULL (asserts compiled in, no NDEBUG): the call
\* aborts and writes nothing
NullOut(name) ==
  /\ Call(name)
  /\ aborted' = TRUE
  /\ UNCHANGED <<in, out, weight, phenotype, index, outIndex, col, ret>>

cmcCollapse ==
  \/ NullOut("cmcCollapse")
  \/ /\ Call("cmcCollapse")
     /\ out' = [Zero(in.rows, 1) EXCEPT !.data =
                  [p \in 0 .. in.rows - 1 |->
                    [c \in {0} |-> IF CmcScan(in, p, 0) THEN 1 ELSE 0]]]
     /\ UNCHANGED <<in, weight, phenotype, index, outIndex, col, ret, aborted>>

cmcCollapseIndexed ==
  \/ NullOut("cmcCollapseIndexed")
  \/ /\ Call("cmcCollapseIndexed")
     /\ \E prior \in PriorOut, idx \in IndexLists(in.cols, MaxIndex),
           oi \in 0 .. OutCols :
          /\ index' = idx
          /\ outIndex' = oi
          /\ \/ /\ ~(prior.rows = in.rows /\ prior.cols > oi)
                /\ aborted' = TRUE
                /\ out' = prior
             \/ /\ prior.rows = in.rows /\ prior.cols > oi
                /\ aborted' = FALSE
                /\ out' = [prior EXCEPT !.data =
                            [p \in 0 .. prior.rows - 1 |->
                              [c \in 0 .. prior.cols - 1 |->
                                 IF c = oi /\ CmcScanIndexed(in, idx, p, 1)
                                 THEN 1 ELSE prior.data[p][c]]]]
     /\ UNCHANGED <<in, weight, phenotype, col, ret>>

zegginiCollapse ==
  \/ NullOut("zegginiCollapse")
  \/ /\ Call("zegginiCollapse")
     /\ out' = [Zero(in.rows, 1) EXCEPT !.data =
                  [p \in 0 .. in.rows - 1 |->
                    [c \in {0} |-> ZegginiScan(in, p, 0)]]]
     /\ UNCHANGED <<in, weight, phenotype, index, outIndex, col, ret, aborted>>

madsonBrowningCollapse ==
  \/ NullOut("madsonBrowningCollapse")
  \/ /\ Call("madsonBrowningCollapse")
     /\ \E ph \in Phenotypes(in.rows) :
          LET w == Weights([m \in 0 .. in.cols - 1 |->
                              getMarkerFrequencyFromControl(in, ph, m)], in.rows)
          IN  /\ phenotype' = ph
              /\ weight' = w
              /\ out' = Terms(in, w)
     /\ UNCHANGED <<in, index, outIndex, col, ret, aborted>>

fpCollapse ==
  \/ NullOut("fpCollapse")
  \/ /\ Call("fpCollapse")
     /\ LET w == Weights([m \in 0 .. in.cols - 1 |-> getMarkerFrequency(in, m)], 1)
        IN  /\ weight' = w
            /\ out' = Terms(in, w)
     /\ UNCHANGED <<in, phenotype, index, outIndex, col, ret, aborted>>

madsonBrowningCollapsePtr ==
  \/ NullOut("madsonBrowningCollapsePtr")
  \/ /\ Call("madsonBrowningCollapsePtr")
     /\ LET w == Weights([m \in 0 .. in.cols - 1 |-> getMarkerFrequency(in, m)], 1)
        IN  /\ weight' = w
            /\ out' = Terms(in, w)
     /\ UNCHANGED <<in, phenotype, index, outIndex, col, ret, aborted>>

NextCollapse ==
  \/ cmcCollapse
  \/ cmcCollapseIndexed
  \/ zegginiCollapse
  \/ madsonBrowningCollapse
  \/ fpCollapse
  \/ madsonBrowningCollapsePtr

SpecCollapse == InitCollapse /\ [][NextCollapse]_vars

\* ------------------------------------------------- the frequency functions
InitFreq ==
  /\ in \in Matrices(NumPeople, NumColumn)
  /\ out = Zero(0, 0)
  /\ weight = <<>>
  /\ phenotype = <<>>
  /\ index = <<>>
  /\ outIndex = 0
  /\ col = 0
  /\ ret = [num |-> 0, den |-> 1]
  /\ called = "none"
  /\ aborted = FALSE
  /\ NoAdd
  /\ NewHeader
  /\ oobRead = FALSE

CallGetMarkerFrequency ==
  /\ Call("getMarkerFrequency")
  /\ \E c \in 0 .. in.cols - 1 :
       /\ col' = c
       /\ ret' = getMarkerFrequency(in, c)
  /\ UNCHANGED <<in, out, weight, phenotype, index, outIndex, aborted>>

CallGetMarkerFrequencyFromControl ==
  /\ Call("getMarkerFrequencyFromControl")
  /\ \E c \in 0 .. in.cols - 1, ph \in Phenotypes(in.rows) :
       /\ col' = c
       /\ phenotype' = ph
       /\ ret' = getMarkerFrequencyFromControl(in, ph, c)
  /\ UNCHANGED <<in, out, weight, index, outIndex, aborted>>

NextFreq ==
  \/ CallGetMarkerFrequency
  \/ CallGetMarkerFrequencyFromControl

SpecFreq == InitFreq /\ [][NextFreq]_vars

\* ------------------------------------------------------------ Summary::add
\* std::sort(t.begin(), t.end()) on a copy of the observations
RECURSIVE Insert(_, _)
Insert(x, t) ==
  IF t = <<>> THEN <<x>>
  ELSE IF x <= Head(t) THEN <<x>> \o t
  ELSE <<Head(t)>> \o Insert(x, Tail(t))

\* A slip: the copy is read unsorted
Unsorted(obs) == obs

RECURSIVE SortAsc(_)
SortAsc(obs) ==
  IF obs = <<>> THEN <<>> ELSE Insert(Head(obs), SortAsc(Tail(obs)))

\* The indices (int) n * 0.25, (int) n * 0.5 and (int) n * 0.75, truncated
\* when they subscript t
Q1Index(n) == n \div 4
MedianIndex(n) == n \div 2
Q3Index(n) == (3 * n) \div 4

\* What add leaves in the Summary for a non-empty v (t[i] is t[i + 1] here).
\* mean and sd come from calculateMean and calculateSampleSD, which are not
\* part of these sources; no property below reads them.
Add(obs) ==
  LET n == Len(obs)
      t == SortAsc(obs)
  IN  [n |-> n, min |-> t[1], q1 |-> t[Q1Index(n) + 1],
       median |-> t[MedianIndex(n) + 1], q3 |-> t[Q3Index(n) + 1],
       max |-> t[n]]

\* What a read outside a vector's elements yields, when it yields a value:
\* the value is not determined, and is kept as this one token, which no
\* observation equals
Indeterminate == {-1}

\* The ways a call of add on the fresh Summary `old` may end.  For an empty v
\* nothing guards t[0] and t[n - 1]: the reads are outside the vector, and
\* either the process dies at the first of them (n is already stored) or
\* the reads yield some values and add returns.
AddOutcomes(old, obs) ==
  IF Len(obs) > 0
  THEN {[s |-> Add(obs), crash |-> FALSE, oob |-> FALSE]}
  ELSE {[s |-> [old EXCEPT !.n = 0], crash |-> TRUE, oob |-> TRUE]}
       \cup {[s |-> [n |-> 0, min |-> g0, q1 |-> g0, median |-> g0,
                     q3 |-> g0, max |-> g1],
              crash |-> FALSE, oob |-> TRUE] : g0, g1 \in Indeterminate}

RECURSIVE SeqsOfLen(_, _)
SeqsOfLen(S, n) ==
  IF n = 0 THEN {<<>>}
  ELSE {Append(t, x) : t \in SeqsOfLen(S, n - 1), x \in S}

\* The observation lists of Summary::add on its own
Observations == UNION {SeqsOfLen(1 .. MaxObs, n) : n \in 0 .. MaxN}

InitAdd ==
  /\ v \in Observations
  /\ s = NewSummary
  /\ pc = "new"
  /\ NoCollapse
  /\ NewHeader
  /\ oobRead = FALSE

SummaryAdd ==
  /\ pc = "new"
  /\ \E o \in AddOutcomes(s, v) :
       /\ s' = o.s
       /\ pc' = IF o.crash THEN "crashed" ELSE "added"
       /\ oobRead' = o.oob
  /\ UNCHANGED <<v, collapseVars, headerVars>>

NextAdd == SummaryAdd

SpecAdd == InitAdd /\ [][NextAdd]_vars

\* ----------------------------------------------------------- SummaryHeader
PhenoNames == {"y1", "y2"}
CovNames == {"age", "sex"}

\* The numbers of samples of the vectors and matrices recorded
Rows == {0, 2}

\* The phenotype vectors recorded: r observations r, r - 1, .. 1
PhenoVectors == {[i \in 1 .. r |-> r + 1 - i] : r \in Rows}

\* The covariate matrices recorded: r x c, any labels on the columns
\* (m.label[i + 1] is m.GetColumnLabel(i)), cell (i, j) holding i + j + 1
CovMatrices ==
  UNION {{[rows |-> r, cols |-> c, label |-> lab,
           data |-> [i \in 0 .. r - 1 |-> [j \in 0 .. c - 1 |-> i + j + 1]]] :
            lab \in [1 .. c -> CovNames]} :
         r \in Rows, c \in 0 .. MaxCols}

\* The vector v recordCovariateColumn copies column c of m into
Column(m, c) == [i \in 1 .. m.rows |-> m.data[i - 1][c]]

\* A slip: the list is not cleared
Kept(list) == list

\* vector::clear()
Cleared(list) == <<>>

\* The loop of recordCovariate from column i on, with the lists so far: the
\* ways it may end.  A column's label is pushed before its Summary is
\* computed, so a process that dies in add leaves one label more.
RECURSIVE CovLoop(_, _, _, _)
CovLoop(m, i, lab, sums) ==
  IF i >= m.cols
  THEN {[covLabel |-> lab, cov |-> sums, crash |-> FALSE]}
  ELSE LET lab2 == Append(lab, m.label[i + 1])
       IN  UNION {IF o.crash
                  THEN {[covLabel |-> lab2, cov |-> sums, crash |-> TRUE]}
                  ELSE CovLoop(m, i + 1, lab2, Append(sums, o.s)) :
                    o \in AddOutcomes(NewSummary, Column(m, i))}

InitHeader ==
  /\ NewHeader
  /\ NoCollapse
  /\ NoAdd
  /\ oobRead = FALSE

Recording == hpc = "recording" /\ calls < MaxCalls

recordPhenotype ==
  /\ Recording
  /\ \E label \in PhenoNames, obs \in PhenoVectors :
       \E o \in AddOutcomes(NewSummary, obs) :
         /\ phenoLabel' = Append(phenoLabel, label)
         /\ pheno' = IF o.crash THEN pheno ELSE Append(pheno, o.s)
         /\ hpc' = IF o.crash THEN "crashed" ELSE hpc
         /\ oobRead' = (oobRead \/ o.oob)
         /\ recPheno' = IF o.crash THEN recPheno
                        ELSE Append(recPheno, [label |-> label, s |-> o.s])
  /\ calls' = calls + 1
  /\ UNCHANGED <<inverseNormalized, covLabel, cov, fp, recCovCount, lastCov,
                 directCol, collapseVars, addVars>>

setInverseNormalize ==
  /\ hpc = "recording"
  /\ \E b \in BOOLEAN : inverseNormalized' = b
  /\ UNCHANGED <<phenoLabel, pheno, covLabel, cov, fp, hpc, calls, recPheno,
                 recCovCount, lastCov, directCol, oobRead, collapseVars, addVars>>

recordCovariateColumn ==
  /\ Recording
  /\ \E m \in CovMatrices :
       \E c \in 0 .. m.cols - 1 :
         \E o \in AddOutcomes(NewSummary, Column(m, c)) :
           /\ cov' = IF o.crash THEN cov ELSE Append(cov, o.s)
           /\ hpc' = IF o.crash THEN "crashed" ELSE hpc
           /\ oobRead' = (oobRead \/ o.oob)
  /\ directCol' = TRUE
  /\ calls' = calls + 1
  /\ UNCHANGED <<phenoLabel, pheno, inverseNormalized, covLabel, fp, recPheno,
                 recCovCount, lastCov, collapseVars, addVars>>

recordCovariate ==
  /\ Recording
  /\ \E m \in CovMatrices :
       \E e \in CovLoop(m, 0, Cleared(covLabel), Cleared(cov)) :
         /\ covLabel' = e.covLabel
         /\ cov' = e.cov
         /\ hpc' = IF e.crash THEN "crashed" ELSE hpc
         /\ oobRead' = (oobRead \/ (m.cols > 0 /\ m.rows = 0))
         /\ recCovCount' = IF e.crash THEN recCovCount ELSE recCovCount + m.cols
         /\ lastCov' = IF e.crash THEN lastCov
                       ELSE [i \in 1 .. m.cols |->
                               [label |-> m.label[i], s |-> e.cov[i]]]
  /\ calls' = calls + 1
  /\ UNCHANGED <<phenoLabel, pheno, inverseNormalized, fp, recPheno,
                 directCol, collapseVars, addVars>>

\* One line of the header file: its leading text, the labels and the number
\* or Summary printed after it, and whether its end of line was written
Line(tag, labels, n, sum) ==
  [tag |-> tag, labels |-> labels, n |-> n, s |-> sum, eol |-> TRUE]

CountTags ==
  <<"##Samples=", "##AnalyzedSamples=", "##Families=", "##AnalyzedFamilies=",
    "##Founders=", "##AnalyzedFounders=">>

\* The lines outputHeader writes before it tests cov.empty()
TraitLines ==
  LET nSample == IF Len(pheno) > 0 THEN pheno[1].n ELSE 0
  IN  [i \in 1 .. Len(CountTags) |-> Line(CountTags[i], <<>>, nSample, NewSummary)]
      \o <<Line("##InverseNormal=",
                <<IF inverseNormalized THEN "ON" ELSE "OFF">>, 0, NewSummary),
           Line("##TraitSummary", <<>>, 0, NewSummary)>>
      \o [i \in 1 .. Len(pheno) |-> Line("##", <<phenoLabel[i]>>, 0, pheno[i])]

\* The lines written after it, reading the label of cov[i] as lab[i]
CovLines(lab) ==
  <<Line("##Covariates=", lab, 0, NewSummary),
    Line("##CovariateSummary", <<>>, 0, NewSummary)>>
  \o [i \in 1 .. Len(cov) |-> Line("##", <<lab[i]>>, 0, cov[i])]

outputHeader ==
  /\ hpc = "recording"
  /\ \/ /\ cov = <<>>
        /\ fp' = TraitLines
        /\ hpc' = "rendered"
        /\ UNCHANGED oobRead
     \/ /\ cov # <<>>
        /\ Len(covLabel) >= Len(cov)
        /\ fp' = TraitLines \o CovLines(SubSeq(covLabel, 1, Len(cov)))
        /\ hpc' = "rendered"
        /\ UNCHANGED oobRead
     \* covLabel[i] with i >= covLabel.size(): the process dies there, the
     \* labels before it written and the line unfinished
     \/ /\ cov # <<>>
        /\ Len(covLabel) < Len(cov)
        /\ fp' = TraitLines \o
                 <<[Line("##Covariates=", covLabel, 0, NewSummary)
                      EXCEPT !.eol = FALSE]>>
        /\ hpc' = "crashed"
        /\ oobRead' = TRUE
     \* ... or the reads yield some text and the rendering goes on
     \/ /\ cov # <<>>
        /\ Len(covLabel) < Len(cov)
        /\ fp' = TraitLines \o
                 CovLines(covLabel \o
                          [i \in 1 .. Len(cov) - Len(covLabel) |-> "(indeterminate)"])
        /\ hpc' = "rendered"
        /\ oobRead' = TRUE
  /\ UNCHANGED <<phenoLabel, pheno, inverseNormalized, covLabel, cov, calls,
                 recPheno, recCovCount, lastCov, directCol, collapseVars, addVars>>

NextHeader ==
  \/ recordPhenotype
  \/ setInverseNormalize
  \/ recordCovariateColumn
  \/ recordCovariate
  \/ outputHeader

SpecHeader == InitHeader /\ [][NextHeader]_vars

\* ------------------------------------------------------------------ claims
People == 0 .. in.rows - 1
Markers == 0 .. in.cols - 1
Collapsed == called # "none" /\ ~aborted

\* C1 (as claimed): after either cmcCollapse, the output entry of a sample is
\* 1.0 if some marker (of the supplied indices, for the indexed variant) has
\* genotype > 0 for that sample and 0.0 otherwise, whatever the addressed
\* column held before.
C1_CmcIsIndicatorOfPositiveGenotype ==
  (Collapsed /\ called \in {"cmcCollapse", "cmcCollapseIndexed"}) =>
    LET used == IF called = "cmcCollapse" THEN Markers
                ELSE {index[k] : k \in 1 .. Len(index)}
        c == IF called = "cmcCollapse" THEN 0 ELSE outIndex
    IN  \A p \in People :
          out.data[p][c] = IF \E m \in used : in.data[p][m] > 0 THEN 1 ELSE 0

\* C2 (as claimed): in the weighted collapses a sample's output is the sum,
\* over the markers not skipped, of weight * genotype over its non-missing
\* entries only: a negative (missing) entry adds nothing.
C2_MissingEntryContributesZero ==
  (Collapsed /\ called \in {"madsonBrowningCollapse", "fpCollapse",
                            "madsonBrowningCollapsePtr"}) =>
    \A p \in People : \A m \in Markers :
      out.data[p][0][m] =
        IF weight[m].skip \/ in.data[p][m] < 0 THEN 0 ELSE in.data[p][m]

\* C8 (as claimed): zegginiCollapse leaves a samples x 1 matrix whose entry
\* for a sample is the number of markers with genotype > 0 for that sample.
C8_ZegginiCountsPositiveGenotypes ==
  (Collapsed /\ called = "zegginiCollapse") =>
    /\ out.rows = in.rows
    /\ out.cols = 1
    /\ \A p \in People :
         out.data[p][0] = Cardinality({m \in Markers : in.data[p][m] > 0})

\* 0 < f < 1 for the rational f
StrictlyInside(f) == 0 < f.num /\ f.num < f.den

\* C3 (as claimed): getMarkerFrequencyFromControl returns a value strictly
\* between 0 and 1 for every matrix of non-negative entries, every phenotype
\* vector and every marker.
C3_ControlFrequencyStrictlyInside ==
  (called = "getMarkerFrequencyFromControl"
     /\ \A p \in People : \A m \in Markers : in.data[p][m] >= 0)
  => StrictlyInside(ret)

\* C3 (amended): the same for every matrix whose entries are non-negative and
\* at most 2.0 (the largest diploid dosage).
C3_ControlFrequencyStrictlyInsideDiploid ==
  (called = "getMarkerFrequencyFromControl"
     /\ \A p \in People : \A m \in Markers :
          in.data[p][m] >= 0 /\ in.data[p][m] <= 2 * Unit)
  => StrictlyInside(ret)

\* C3 witness: a call on a matrix of dosages in [0, 2] where every sample is
\* a control carrying the largest dosage 2.0 at the marker.
C3_Witness ==
  /\ called = "getMarkerFrequencyFromControl"
  /\ \A p \in People : \A m \in Markers :
       in.data[p][m] >= 0 /\ in.data[p][m] <= 2 * Unit
  /\ \A p \in People : phenotype[p] = 0 /\ in.data[p][col] = 2 * Unit

\* C4 (as claimed): getMarkerFrequency returns exactly 0.0 when every entry of
\* the marker column is negative.
C4_AllMissingColumnHasFrequencyZero ==
  (called = "getMarkerFrequency" /\ \A p \in People : in.data[p][col] < 0)
  => ret.num = 0

\* The k-th smallest (k = 0 ..) of the observations obs, stated by counting
OrderStat(obs, k) ==
  CHOOSE x \in {obs[i] : i \in DOMAIN obs} :
    /\ Cardinality({i \in DOMAIN obs : obs[i] < x}) <= k
    /\ k < Cardinality({i \in DOMAIN obs : obs[i] <= x})

\* floor(a / b) for a >= 0, b > 0, stated by its bounds
Floor(a, b) == CHOOSE k \in 0 .. a : k * b <= a /\ a < (k + 1) * b

\* C5: after add(v) on n >= 1 observations, n is the length of v,
\* min <= q1 <= median <= q3 <= max, min and max are the smallest and the
\* largest observation, and q1, median and q3 are the observations of rank
\* floor(n * 0.25), floor(n * 0.5) and floor(n * 0.75), ranks inside 0 .. n-1.
C5_AddGivesOrderedNearestRankSummary ==
  (pc = "added" /\ Len(v) >= 1) =>
    LET n == Len(v)
        i1 == Floor(n, 4)
        i2 == Floor(n, 2)
        i3 == Floor(3 * n, 4)
    IN  /\ s.n = n
        /\ {i1, i2, i3} \subseteq 0 .. n - 1
        /\ s.min <= s.q1 /\ s.q1 <= s.median
        /\ s.median <= s.q3 /\ s.q3 <= s.max
        /\ s.min = OrderStat(v, 0)
        /\ s.max = OrderStat(v, n - 1)
        /\ s.q1 = OrderStat(v, i1)
        /\ s.median = OrderStat(v, i2)
        /\ s.q3 = OrderStat(v, i3)

\* C5 witness: add returned for MaxN observations given out of order, with a
\* tie, whose quartiles differ.
C5_Witness ==
  /\ pc = "added"
  /\ Len(v) = MaxN
  /\ v[1] > v[Len(v)]
  /\ \E i \in 1 .. Len(v) - 1 : v[i] = v[i + 1]
  /\ s.q1 < s.median /\ s.median < s.q3

\* C6 (as claimed): a summary computation over no observations ends in a
\* fatal assertion: until the header is rendered no vector was read outside
\* its elements and no Summary of zero observations was returned.
C6_EmptyObservationsFailFast ==
  fp = <<>> =>
    /\ ~oobRead
    /\ \A i \in DOMAIN pheno : pheno[i].n >= 1
    /\ \A i \in DOMAIN cov : cov[i].n >= 1

Returned == hpc # "crashed" /\ ~directCol

Entries(labels, sums) ==
  [i \in 1 .. Len(sums) |-> [label |-> labels[i], s |-> sums[i]]]

\* The (label, Summary) rows outputHeader wrote, in order
WrittenRows(file) ==
  LET rows == SelectSeq(file, LAMBDA l : l.tag = "##")
  IN  [i \in 1 .. Len(rows) |-> [label |-> rows[i].labels[1], s |-> rows[i].s]]

PhenotypesAsRecorded ==
  /\ Len(phenoLabel) = Len(recPheno)
  /\ Len(pheno) = Len(recPheno)
  /\ Entries(phenoLabel, pheno) = recPheno

\* C7 (as claimed): after recordPhenotype and recordCovariate calls the
\* report holds an entry for every phenotype recorded and for every covariate
\* column recorded across all the calls: a later recordCovariate discards
\* nothing.
C7_ReportHoldsAllRecorded ==
  Returned =>
    /\ PhenotypesAsRecorded
    /\ Len(covLabel) = recCovCount
    /\ Len(cov) = recCovCount

\* C7 (amended): the report holds, in the order recorded, an entry for every
\* phenotype recorded and for every column of the last recordCovariate call
\* (which replaces the entries of the calls before it), and outputHeader
\* writes the rows in that order.
C7_ReportHoldsPhenotypesAndLastCovariates ==
  Returned =>
    /\ PhenotypesAsRecorded
    /\ Len(covLabel) = Len(lastCov)
    /\ Len(cov) = Len(lastCov)
    /\ Entries(covLabel, cov) = lastCov
    /\ hpc = "rendered" => WrittenRows(fp) = recPheno \o lastCov

\* C7 witness: a rendered report of a phenotype and of a second
\* recordCovariate call of two columns that followed one with columns.
C7_Witness ==
  /\ hpc = "rendered"
  /\ ~directCol
  /\ Len(pheno) >= 1
  /\ Len(cov) >= 2
  /\ recCovCount > Len(cov)

\* C9 (as claimed): outputHeader writes the "##Covariates=" line and the
\* "##CovariateSummary" table exactly when a covariate Summary is recorded:
\* with none the output ends after the phenotype table, otherwise both
\* follow it, with a label and a row for every recorded covariate.
C9_CovariateLinesIffCovariateRecorded ==
  fp # <<>> =>
    LET k == Len(CountTags) + 2 + Len(pheno)
    IN  IF cov = <<>>
        THEN /\ Len(fp) = k
             /\ \A i \in DOMAIN fp :
                  fp[i].tag \notin {"##Covariates=", "##CovariateSummary"}
        ELSE /\ Len(fp) = k + 2 + Len(cov)
             /\ fp[k + 1].tag = "##Covariates="
             /\ fp[k + 1].eol
             /\ Len(fp[k + 1].labels) = Len(cov)
             /\ fp[k + 2].tag = "##CovariateSummary"
             /\ \A i \in 1 .. Len(cov) : fp[k + 2 + i].tag = "##"

\* C10 (as claimed): after any calls of recordPhenotype, setInverseNormalize,
\* recordCovariateColumn and recordCovariate that returned, the label lists
\* are as long as the summary lists.
C10_LabelListsMatchSummaryLists ==
  hpc = "recording" =>
    /\ Len(phenoLabel) = Len(pheno)
    /\ Len(covLabel) = Len(cov)
=============================================================================
